---- MODULE Spec2Model ----
(***************************************************************************)
(* A model of revng's JumpTargetManager (jumptargetmanager.cpp): the        *)
(* address->block maps, the Unexplored worklist, the dispatcher switch,     *)
(* the direct-branch pass and the harvesting loop, over an abstract IR in   *)
(* which a basic block is a sequence of instructions.                       *)
(***************************************************************************)
EXTENDS Integers, Sequences, FiniteSets, TLC

\* ------------------------------------------------------------------ bounds

\* Addresses are 0..MaxAddr.
MaxAddr == 5

Addr == 0..MaxAddr

\* ------------------------------------------------- architecture & segments

\* nullptr, for blocks.
Null == 0

\* The instruction-alignment rule of the source architecture.
InstructionAlignment == 2

\* The segments the manager is constructed with: a non-executable one holding
\* addresses 0 and 1, and an executable one from 2 to the end of the address
\* space.
Segments ==
    << [StartVirtualAddress |-> 0, EndVirtualAddress |-> 2,
        IsReadable |-> TRUE, IsExecutable |-> FALSE],
       [StartVirtualAddress |-> 2, EndVirtualAddress |-> MaxAddr + 1,
        IsReadable |-> TRUE, IsExecutable |-> TRUE] >>

ExecutableRanges ==
    { <<Segments[i].StartVirtualAddress, Segments[i].EndVirtualAddress>> :
        i \in { j \in DOMAIN Segments : Segments[j].IsExecutable } }

isExecutableAddress(PC) ==
    \E Range \in ExecutableRanges : Range[1] <= PC /\ PC < Range[2]

isInstructionAligned(PC) == PC % InstructionAlignment = 0

\* ---------------------------------------------------------------------- IR

\* An instruction.  pc is the address of the machine instruction it was
\* translated from (0 for the dispatcher's own), which with op identifies it;
\* size is a newpc marker's second argument; tgt a branch's target block; vk
\* and vc the kind and, for a literal constant, the value a store writes.
Instr(op, pc, size, tgt, vk, vc) ==
    [op |-> op, pc |-> pc, size |-> size, tgt |-> tgt, vk |-> vk, vc |-> vc]

NewPCMarker(pc, size) == Instr("newpc", pc, size, Null, "", 0)
StorePC(pc, vk, vc) == Instr("storePC", pc, 0, Null, vk, vc)
HelperCall(pc) == Instr("call", pc, 0, Null, "", 0)
ExitTBCall(pc) == Instr("exitTB", pc, 0, Null, "", 0)
UnreachableInst(pc) == Instr("unreachable", pc, 0, Null, "", 0)
BranchInst(pc, tgt) == Instr("br", pc, 0, tgt, "", 0)
\* A conditional branch: vc holds its second successor.
CondBranchInst(pc, tgt, other) == Instr("brcond", pc, 0, tgt, "", other)
AbortCall(pc) == Instr("abort", pc, 0, Null, "", 0)

isCallInst(I) == I.op \in {"newpc", "call", "exitTB", "abort", "unknownPC"}

\* The two blocks createDispatcher builds.
Dispatcher == 1
DispatcherDefault == 2

DispatcherBlocks ==
    << << Instr("load", 0, 0, Null, "", 0), Instr("switch", 0, 0, Null, "", 0) >>,
       << Instr("unknownPC", 0, 0, Null, "", 0), UnreachableInst(0) >> >>

\* ----------------------------------------------------------------- helpers

Range(s) == { s[i] : i \in DOMAIN s }

Front(s) == SubSeq(s, 1, Len(s) - 1)

RemoveAt(s, i) == SubSeq(s, 1, i - 1) \o SubSeq(s, i + 1, Len(s))

RECURSIVE SetToSeq(_)
SetToSeq(S) ==
    IF S = {} THEN << >>
    ELSE LET x == CHOOSE y \in S : \A z \in S : y <= z
         IN << x >> \o SetToSeq(S \ {x})

\* Where instruction I is: << block, index >>, or << Null, 0 >>.
Locate(Blocks, I) ==
    IF \E b \in DOMAIN Blocks : \E i \in DOMAIN Blocks[b] : Blocks[b][i] = I
    THEN CHOOSE loc \in UNION { { <<b, i>> : i \in DOMAIN Blocks[b] } :
                                 b \in DOMAIN Blocks } :
            Blocks[loc[1]][loc[2]] = I
    ELSE << Null, 0 >>

\* The successors of block b: those of its terminator.
Successors(M, b) ==
    LET B == M.Blocks[b] IN
    IF B = << >> THEN {}
    ELSE LET T == B[Len(B)] IN
         CASE T.op = "br" -> {T.tgt}
           [] T.op = "brcond" -> {T.tgt, T.vc}
           [] T.op = "switch" ->
                {DispatcherDefault} \cup { c.blk : c \in Range(M.DispatcherSwitch) }
           [] OTHER -> {}

Fatal(M, what) == IF M.fatal = "" THEN [M EXCEPT !.fatal = what] ELSE M

\* ------------------------------------------------------------------ unvisit

\* A faulty variant of unvisit: it does not go on to the successors.
unvisitOnly(M, BB) == [M EXCEPT !.Visited = @ \ {BB}]

RECURSIVE unvisitLoop(_, _)
unvisitLoop(M, WorkList) ==
    IF WorkList = << >> THEN M
    ELSE LET Current == WorkList[Len(WorkList)]
             V == M.Visited \ {Current}
             M1 == [M EXCEPT !.Visited = V]
             Push == { s \in Successors(M1, Current) :
                         /\ s \in V
                         /\ M1.Blocks[s] # << >>
                         /\ M1.Blocks[s][1].op # "newpc" }
         IN unvisitLoop(M1, Front(WorkList) \o SetToSeq(Push))

unvisit(M, BB) ==
    IF BB \in M.Visited THEN unvisitLoop(M, << BB >>) ELSE M

\* --------------------------------------------------------------- getBlockAt

\* A faulty variant of splitBasicBlock: it splits after the instruction.
splitBasicBlockAfter(M, b, i) ==
    [M |-> [M EXCEPT !.Blocks =
              Append([@ EXCEPT ![b] = Append(SubSeq(M.Blocks[b], 1, i),
                                             BranchInst(0, Len(M.Blocks) + 1))],
                     SubSeq(M.Blocks[b], i + 1, Len(M.Blocks[b])))],
     ret |-> Len(M.Blocks) + 1]

\* BasicBlock::splitBasicBlock(I): the instructions from index i on move to
\* a new block, and the old block ends with a branch to it.
splitBasicBlock(M, b, i) ==
    LET B == M.Blocks[b]
        New == Len(M.Blocks) + 1
    IN [M |-> [M EXCEPT !.Blocks =
                  Append([@ EXCEPT ![b] = Append(SubSeq(B, 1, i - 1),
                                                 BranchInst(0, New))],
                         SubSeq(B, i, Len(B)))],
        ret |-> New]

\* Case 1: there is already a block for that address.
getBlockAtCase1(M, PC) ==
    [M |-> unvisit(M, M.JumpTargets[PC]), ret |-> M.JumpTargets[PC]]

\* The creation of the switch case and of the JumpTargets entry.
addCase(M, PC, NewBlock) ==
    [M EXCEPT !.DispatcherSwitch = Append(@, [lit |-> PC, blk |-> NewBlock]),
              !.JumpTargets = (PC :> NewBlock) @@ @]

\* Case 2: the address has been met; promote its instruction to a block.
unvisitReturned(R) == [M |-> unvisit(R.M, R.ret), ret |-> R.ret]

\* loc is where the instruction registered for the address is.
promote(M, loc) ==
    IF loc[1] = Null
    THEN [M |-> Fatal(M, "getBlockAt: dangling instruction"), ret |-> Null]
    ELSE IF loc[2] = 1
    THEN [M |-> unvisit(M, loc[1]), ret |-> loc[1]]
    ELSE unvisitReturned(splitBasicBlock(M, loc[1], loc[2]))

getBlockAtCase2(M, PC) ==
    promote(M, Locate(M.Blocks, M.OriginalInstructionAddresses[PC]))

\* Case 3: the address has never been met; create an empty block and register
\* it for exploration.  gPushed is a history of the addresses pushed.
getBlockAtCase3(M, PC) ==
    LET New == Len(M.Blocks) + 1
    IN [M |-> [M EXCEPT !.Blocks = Append(@, << >>),
                        !.Unexplored = Append(@, [pc |-> PC, blk |-> New]),
                        !.gPushed = Append(@, PC)],
        ret |-> New]

\* A faulty variant of addCaseReturned: it also puts the block on the
\* worklist, whichever case made it.
addCaseReturnedAndPush(R, PC) ==
    IF R.ret = Null THEN R
    ELSE [M |-> [addCase(R.M, PC, R.ret) EXCEPT
                   !.Unexplored = Append(@, [pc |-> PC, blk |-> R.ret])],
          ret |-> R.ret]

\* The tail of getBlockAt, after the block R.ret has been made for PC.
addCaseReturned(R, PC) ==
    IF R.ret = Null THEN R
    ELSE [M |-> addCase(R.M, PC, R.ret), ret |-> R.ret]

\* A faulty variant of getBlockAtNew: a promoted instruction gets neither a
\* switch case nor a JumpTargets entry.
getBlockAtNewCaseless(M, PC) ==
    IF PC \in DOMAIN M.OriginalInstructionAddresses
    THEN getBlockAtCase2(M, PC)
    ELSE addCaseReturned(getBlockAtCase3(M, PC), PC)

getBlockAtNew(M, PC) ==
    addCaseReturned(IF PC \in DOMAIN M.OriginalInstructionAddresses
                    THEN getBlockAtCase2(M, PC)
                    ELSE getBlockAtCase3(M, PC),
                    PC)

\* A faulty variant of markReliable: the address replaces the set.
markReliableOnly(M, PC, Reliable) ==
    IF Reliable THEN [M EXCEPT !.ReliablePCs = {PC}] ELSE M

markReliable(M, PC, Reliable) ==
    IF Reliable THEN [M EXCEPT !.ReliablePCs = @ \cup {PC}] ELSE M

\* gReturned is a history: for each valid address requested, the block the
\* last call for it returned.
recordReturned(R, PC) ==
    [M |-> [R.M EXCEPT !.gReturned = (PC :> R.ret) @@ @], ret |-> R.ret]

\* A faulty variant of getBlockAtValid: it does not look the address up.
getBlockAtValidNoLookup(M, PC) == getBlockAtNew(M, PC)

\* getBlockAt for an address that passed the validation.
getBlockAtValid(M, PC) ==
    IF PC \in DOMAIN M.JumpTargets
    THEN getBlockAtCase1(M, PC)
    ELSE getBlockAtNew(M, PC)

\* A faulty variant of getBlockAt: it notes the address as reliable before
\* validating it.
getBlockAtMarkFirst(M, PC, Reliable) ==
    IF M.fatal # "" THEN [M |-> M, ret |-> Null]
    ELSE IF ~isExecutableAddress(PC) \/ ~isInstructionAligned(PC)
    THEN [M |-> markReliable(M, PC, Reliable), ret |-> Null]
    ELSE recordReturned(getBlockAtValid(markReliable(M, PC, Reliable), PC), PC)

getBlockAt(M, PC, Reliable) ==
    IF M.fatal # "" THEN [M |-> M, ret |-> Null]
    ELSE IF ~isExecutableAddress(PC) \/ ~isInstructionAligned(PC)
    THEN [M |-> M, ret |-> Null]
    ELSE recordReturned(getBlockAtValid(markReliable(M, PC, Reliable), PC), PC)

\* --------------------------------------------------- the segments' bytes

\* TLC's integers are 32 bits wide: a word read from a buffer is held as its
\* low four bytes and its high four bytes, zero for a narrower word.
RECURSIVE weigh(_, _)
weigh(bs, k) ==
    IF bs = << >> THEN 0 ELSE Head(bs) * 256 ^ k + weigh(Tail(bs), k + 1)

halves(bs) ==
    [lo |-> weigh(SubSeq(bs, 1, IF Len(bs) < 4 THEN Len(bs) ELSE 4), 0),
     hi |-> weigh(SubSeq(bs, 5, Len(bs)), 0)]

\* A faulty variant of leastFirst: the bytes are taken in little-endian
\* order whatever the source's.
leastFirstLittle(Data, Start, Size, little) ==
    [k \in 1..Size |-> Data[Start + k]]

\* The Size bytes at the offset Start, the least significant first.
leastFirst(Data, Start, Size, little) ==
    [k \in 1..Size |-> IF little THEN Data[Start + k] ELSE Data[Start + Size + 1 - k]]

\* support::endian::read<value_type, endian, 1>(Start)
read(Data, Start, Size, little) == halves(leastFirst(Data, Start, Size, little))

\* A word as the uint64_t getBlockAt takes: one that does not fit the
\* model's integers is above every address of the model.
OutOfRange == 2147483647

asAddress(Value) == IF Value.hi = 0 THEN Value.lo ELSE OutOfRange

\* findCodePointers, Start being an offset into Data and Size the size of
\* value_type.
RECURSIVE findCodePointers(_, _, _, _, _)
findCodePointers(M, Data, Start, Size, little) ==
    IF Start < Len(Data) - Size
    THEN findCodePointers(
             getBlockAt(M, asAddress(read(Data, Start, Size, little)), FALSE).M,
             Data, Start + 1, Size, little)
    ELSE M

\* harvestGlobalData's loop over the segments, Data[i] being the bytes of
\* the i-th.
RECURSIVE harvestSegments(_, _, _, _, _)
harvestSegments(M, Data, i, Size, little) ==
    IF i > Len(Data) THEN M
    ELSE harvestSegments(findCodePointers(M, Data[i], 0, Size, little),
                         Data, i + 1, Size, little)

harvestGlobalData(M, Data, pointerSize, little) ==
    IF pointerSize = 64 THEN harvestSegments(M, Data, 1, 8, little)
    ELSE IF pointerSize = 32 THEN harvestSegments(M, Data, 1, 4, little)
    ELSE M

\* readConstantInt on the segments Segs, each with its bytes in Data: the
\* first segment that passes the test is read, at Address less its start.
\* Address is a uint64_t, of AddressBits bits here, and Address + Size wraps
\* as it does.
AddressBits == 5

AddressSpace == 2 ^ AddressBits

Absent == [found |-> FALSE]

\* The read of Size bytes at the offset Offset of Data, which is outside the
\* buffer if the bytes are not all there.
OutsideBuffer == [found |-> TRUE, bits |-> 0, value |-> [lo |-> -1, hi |-> -1]]

ConstantInt(bits, Value) == [found |-> TRUE, bits |-> bits, value |-> Value]

RECURSIVE readConstantIntFrom(_, _, _, _, _)
readConstantIntFrom(Segs, i, little, Address, Size) ==
    IF i > Len(Segs) THEN Absent
    ELSE IF /\ Segs[i].StartVirtualAddress <= Address
            /\ (Address + Size) % AddressSpace < Segs[i].EndVirtualAddress
            /\ Segs[i].IsReadable
    THEN IF Address - Segs[i].StartVirtualAddress + Size > Len(Segs[i].Data)
         THEN OutsideBuffer
         ELSE ConstantInt(Size * 8,
                          read(Segs[i].Data, Address - Segs[i].StartVirtualAddress, Size,
                               IF Size = 1 THEN TRUE ELSE little))
    ELSE readConstantIntFrom(Segs, i + 1, little, Address, Size)

readConstantInt(Segs, little, Address, Size) ==
    readConstantIntFrom(Segs, 1, little, Address, Size)

\* ------------------------------------------------ the registration methods

\* A faulty variant of registerInstruction: it stores the association
\* without looking for an earlier one.
registerInstructionOverwrite(M, PC, I) ==
    [M EXCEPT !.OriginalInstructionAddresses = (PC :> I) @@ @]

registerInstruction(M, PC, I) ==
    IF PC \in DOMAIN M.OriginalInstructionAddresses
    THEN Fatal(M, "registerInstruction: PC saved twice")
    ELSE [M EXCEPT !.OriginalInstructionAddresses = (PC :> I) @@ @]

\* A faulty variant of registerBlock: it stores the association without
\* looking for an earlier one.
registerBlockOverwrite(M, PC, Block, EndDiffers) ==
    [M EXCEPT !.JumpTargets = (PC :> Block) @@ @]

\* With no entry for PC, `It->second != Block` reads through the end
\* iterator: EndDiffers is what that read compares as.
registerBlock(M, PC, Block, EndDiffers) ==
    IF PC \in DOMAIN M.JumpTargets
    THEN IF M.JumpTargets[PC] # Block
         THEN Fatal(M, "registerBlock: another block")
         ELSE M
    ELSE IF EndDiffers
         THEN [M EXCEPT !.JumpTargets = (PC :> Block) @@ @]
         ELSE M

\* -------------------------------------------------------------------- newPC

\* gHanded is a history: by which calls each address's worklist entry was
\* handed out.
handOut(M, PC, by) ==
    [M EXCEPT !.gHanded =
        (PC :> (IF PC \in DOMAIN @ THEN Append(@[PC], by) ELSE << by >>)) @@ @]

\* cont is ShouldContinue: "true", "false", or "unset" when it is not written.
\* The index of the first worklist entry for PC.
findUnexplored(M, PC) ==
    CHOOSE j \in DOMAIN M.Unexplored :
        /\ M.Unexplored[j].pc = PC
        /\ \A k \in 1..(j - 1) : M.Unexplored[k].pc # PC

\* The return of Result, once its entry has been erased.
returnPending(M, Result) ==
    IF M.Blocks[Result] # << >>
    THEN [M |-> Fatal(M, "newPC: Result not empty"), ret |-> Null, cont |-> "true"]
    ELSE [M |-> M, ret |-> Result, cont |-> "true"]

newPCPendingAt(M, PC, i) ==
    returnPending(handOut([M EXCEPT !.Unexplored = RemoveAt(@, i)], PC, "newPC"),
                  M.Unexplored[i].blk)

newPCPending(M, PC) == newPCPendingAt(M, PC, findUnexplored(M, PC))

newPCVisited(M, PC) ==
    IF M.Blocks[M.JumpTargets[PC]] = << >>
    THEN [M |-> Fatal(M, "newPC: block is empty"), ret |-> Null, cont |-> "unset"]
    ELSE [M |-> M, ret |-> M.JumpTargets[PC], cont |-> "false"]

\* The address is in the middle of a translated block: no need to continue.
stopAt(R) == [M |-> R.M, ret |-> R.ret, cont |-> "false"]

newPC(M, PC) ==
    IF PC \in DOMAIN M.JumpTargets
    THEN IF \E j \in DOMAIN M.Unexplored : M.Unexplored[j].pc = PC
         THEN newPCPending(M, PC)
         ELSE newPCVisited(M, PC)
    ELSE IF PC \in DOMAIN M.OriginalInstructionAddresses
    THEN stopAt(getBlockAt(M, PC, FALSE))
    ELSE [M |-> M, ret |-> Null, cont |-> "unset"]

\* ------------------------------------------------- the direct-branch pass

\* A faulty variant of getPrevPCWrite: it goes on past calls.
RECURSIVE getPrevPCWritePastCalls(_, _, _)
getPrevPCWritePastCalls(M, b, i) ==
    IF i <= 1 THEN 0
    ELSE IF M.Blocks[b][i - 1].op = "storePC" THEN i - 1
    ELSE getPrevPCWritePastCalls(M, b, i - 1)

\* The index in block b of the last write to the PC before index i, or 0.
RECURSIVE getPrevPCWrite(_, _, _)
getPrevPCWrite(M, b, i) ==
    IF i <= 1 THEN 0
    ELSE LET Current == M.Blocks[b][i - 1] IN
         IF Current.op = "storePC" THEN i - 1
         ELSE IF isCallInst(Current) THEN 0
         ELSE getPrevPCWrite(M, b, i - 1)

Predecessors(M, b) == { p \in DOMAIN M.Blocks : b \in Successors(M, p) }

\* The fall-through address of the instruction at index i of block b: the
\* nearest newpc marker going backwards, then up the dominator tree, followed
\* here through blocks with a single predecessor; 0 stands for the failure to
\* find the marker.
RECURSIVE getNextPC(_, _, _, _)
getNextPC(M, b, i, fuel) ==
    IF i >= 2 /\ M.Blocks[b][i - 1].op = "newpc"
    THEN M.Blocks[b][i - 1].pc + M.Blocks[b][i - 1].size
    ELSE IF i >= 2 THEN getNextPC(M, b, i - 1, fuel)
    ELSE IF fuel > 0 /\ Cardinality(Predecessors(M, b)) = 1
    THEN LET p == CHOOSE q \in Predecessors(M, b) : TRUE
         IN getNextPC(M, p, Len(M.Blocks[p]) + 1, fuel - 1)
    ELSE 0

\* ------------------------------------------------------------------ getPC

\* The index of the nearest newpc marker of block B at or before index s, or 0.
lastMarker(B, s) ==
    IF \E j \in 1..s : B[j].op = "newpc"
    THEN CHOOSE j \in 1..s : B[j].op = "newpc" /\ \A k \in (j + 1)..s : B[k].op # "newpc"
    ELSE 0

\* The predecessors of BB in the order of its use list, which is either way.
predList(M, BB, asc) ==
    LET L == SetToSeq(Predecessors(M, BB))
    IN IF asc THEN L ELSE [k \in DOMAIN L |-> L[Len(L) + 1 - k]]

\* The reverse iterators getPC pushes: the end of each predecessor that is
\* not empty and not in the function's local Visited set.
predEnds(M, BB, Seen, asc) ==
    LET L == SelectSeq(predList(M, BB, asc),
                       LAMBDA p : M.Blocks[p] # << >> /\ p \notin Seen)
    IN [k \in DOMAIN L |-> << L[k], Len(M.Blocks[L[k]]) >>]

NoMarker == [op |-> "none"]

\* getPC's result: the pair, or the failure of its assertion.
PCPair(pc, size) == [pc |-> pc, size |-> size, assert |-> FALSE]

DispatcherReached == [pc |-> 0, size |-> 0, assert |-> TRUE]

\* getPC's loop: WorkList holds << block, index >> pairs, the index being
\* where the backward scan of the block starts.
RECURSIVE getPCLoop(_, _, _, _, _)

\* The scan of block BB has met the marker at index j, or none (0).
getPCScanned(M, BB, j, WorkList, Seen, NewPCCall, asc) ==
    IF j # 0
    THEN IF NewPCCall # NoMarker THEN PCPair(0, 0)
         ELSE getPCLoop(M, WorkList, Seen, M.Blocks[BB][j], asc)
    ELSE IF NewPCCall # NoMarker THEN getPCLoop(M, WorkList, Seen, NewPCCall, asc)
    ELSE IF Dispatcher \in Predecessors(M, BB) THEN DispatcherReached
    ELSE getPCLoop(M, WorkList \o predEnds(M, BB, Seen, asc), Seen, NewPCCall, asc)

getPCLoop(M, WorkList, Seen, NewPCCall, asc) ==
    IF WorkList = << >>
    THEN IF NewPCCall = NoMarker THEN PCPair(0, 0)
         ELSE PCPair(NewPCCall.pc, NewPCCall.size)
    ELSE getPCScanned(M, Head(WorkList)[1],
                      lastMarker(M.Blocks[Head(WorkList)[1]], Head(WorkList)[2]),
                      Tail(WorkList), Seen \cup {Head(WorkList)[1]}, NewPCCall, asc)

\* getPC of the instruction at index i of block b: the scan starts at the
\* instruction itself when it is the first of its block, before it otherwise.
getPC(M, b, i, asc) ==
    getPCLoop(M, << << b, IF i = 1 THEN 1 ELSE i - 1 >> >>, {}, NoMarker, asc)

\* ---------------------------------------------------------------- isSumJump

\* The values a store writes: a constant, a load, a value of another kind
\* (an argument, a call), or a binary operator on two values.
ConstantValue == [k |-> "const"]
LoadValue == [k |-> "load"]
OtherValue == [k |-> "other"]
BinOp(opc, a, b) == [k |-> "binop", opc |-> opc, ops |-> << a, b >>]

\* A faulty variant of sumJumpWalk: an operator it does not know is passed
\* over.
RECURSIVE sumJumpWalkPassOver(_)
sumJumpWalkPassOver(WorkList) ==
    IF WorkList = << >> THEN FALSE
    ELSE LET V == Head(WorkList) IN
         IF V.k \in {"const", "load"} THEN sumJumpWalkPassOver(Tail(WorkList))
         ELSE IF V.k # "binop" THEN FALSE
         ELSE IF V.opc \in {"add", "or"} THEN TRUE
         ELSE IF V.opc \in {"shl", "lshr", "ashr", "and"}
         THEN sumJumpWalkPassOver(
                  Tail(WorkList) \o SelectSeq(V.ops, LAMBDA o : o.k # "const"))
         ELSE sumJumpWalkPassOver(Tail(WorkList))

\* isSumJump's loop over its queue of values.
RECURSIVE sumJumpWalk(_)
sumJumpWalk(WorkList) ==
    IF WorkList = << >> THEN FALSE
    ELSE LET V == Head(WorkList) IN
         IF V.k \in {"const", "load"} THEN sumJumpWalk(Tail(WorkList))
         ELSE IF V.k # "binop" THEN FALSE
         ELSE IF V.opc \in {"add", "or"} THEN TRUE
         ELSE IF V.opc \in {"shl", "lshr", "ashr", "and"}
         THEN sumJumpWalk(Tail(WorkList) \o SelectSeq(V.ops, LAMBDA o : o.k # "const"))
         ELSE FALSE

\* PCWrite->getValueOperand(): a store's vk is the kind of the value it
\* writes, a sum being that of a load and a constant.
getValueOperand(PCWrite) ==
    CASE PCWrite.vk = "const" -> ConstantValue
      [] PCWrite.vk = "load" -> LoadValue
      [] PCWrite.vk \in {"add", "or"} -> BinOp(PCWrite.vk, LoadValue, ConstantValue)
      [] OTHER -> OtherValue

isSumJumpValue(V) == sumJumpWalk(<< V >>)

isSumJump(PCWrite) == isSumJumpValue(getValueOperand(PCWrite))

\* purgeBranch: only a branch, and nothing after it, may follow.
purgeBranch(M, b, i) ==
    IF M.Blocks[b][i].op = "br" /\ i = Len(M.Blocks[b])
    THEN [M EXCEPT !.Blocks[b] = RemoveAt(@, i)]
    ELSE Fatal(M, "purgeBranch: not a lone branch")

\* The rewriting of the exit_tb call of instruction id whose PC write stores
\* a constant, given the block getBlockAt resolved.
spliceDirectBranch(M, id, TargetBlock) ==
    LET loc == Locate(M.Blocks, ExitTBCall(id))
        b == loc[1]
        i == loc[2]
        B == M.Blocks[b]
    IN IF ~(i < Len(B) /\ B[i + 1].op = "unreachable")
       THEN Fatal(M, "runOnFunction: no unreachable after exit_tb")
       ELSE LET M1 == [M EXCEPT !.Blocks[b] = RemoveAt(@, i + 1)]
                M2 == IF i < Len(M1.Blocks[b]) THEN purgeBranch(M1, b, i + 1) ELSE M1
                New == IF TargetBlock # Null
                       THEN << BranchInst(id, TargetBlock) >>
                       ELSE << AbortCall(id), UnreachableInst(id) >>
                B2 == M2.Blocks[b]
                B3 == SubSeq(B2, 1, i - 1) \o New \o SubSeq(B2, i + 1, Len(B2))
                w == CHOOSE j \in DOMAIN B3 : B3[j].op = "storePC" /\ B3[j].pc = id
            IN IF M2.fatal # "" THEN M2
               ELSE [M2 EXCEPT !.Blocks[b] = RemoveAt(B3, w),
                               !.ExitTBUses = SelectSeq(@, LAMBDA u : u # id)]

\* A faulty variant of spliceReturned: the branch goes to the dispatcher,
\* whatever block was resolved.
spliceReturnedToDispatcher(R, id) == spliceDirectBranch(R.M, id, Dispatcher)

spliceReturned(R, id) == spliceDirectBranch(R.M, id, R.ret)

\* The registration of the fall-through address of a sum jump.
registerFallThrough(M, PCWrite, NextPC) ==
    IF NextPC # 0 /\ M.EnableOSRA /\ isSumJump(PCWrite)
    THEN getBlockAt(M, NextPC, FALSE).M
    ELSE M

\* A faulty variant of rewriteConstant: the target is reliable whenever the
\* fall-through address is known.
rewriteConstantReliable(M, id, PCWrite, NextPC) ==
    IF PCWrite.vk # "const" THEN M
    ELSE spliceReturned(getBlockAt(M, PCWrite.vc, NextPC # 0), id)

\* The rewriting of a jump to a constant address.
rewriteConstant(M, id, PCWrite, NextPC) ==
    IF PCWrite.vk # "const" THEN M
    ELSE spliceReturned(getBlockAt(M, PCWrite.vc,
                                   NextPC # 0 /\ PCWrite.vc # NextPC), id)

\* The rest of the loop body once the fall-through address is known.
handlePCWrite(M, id, PCWrite, NextPC) ==
    rewriteConstant(registerFallThrough(M, PCWrite, NextPC), id, PCWrite, NextPC)

\* The loop body for the call in block b whose PC write is at index w.
translateAt(M, id, b, w) ==
    IF M.fatal # "" \/ w = 0 THEN M
    ELSE handlePCWrite(M, id, M.Blocks[b][w], getNextPC(M, b, w, Len(M.Blocks)))

translateLocated(M, id, loc) ==
    translateAt(M, id, loc[1], getPrevPCWrite(M, loc[1], loc[2]))

\* The body of runOnFunction's loop for one use of exitTB: the call of
\* instruction id.
translateDirectBranch(M, id) ==
    translateLocated(M, id, Locate(M.Blocks, ExitTBCall(id)))

RECURSIVE runOnUses(_, _)
runOnUses(M, uses) ==
    IF uses = << >> THEN M
    ELSE runOnUses(translateDirectBranch(M, Head(uses)), Tail(uses))

runOnFunction(M) == runOnUses(M, M.ExitTBUses)

\* ------------------------------------------- handleSumJump, indirect jumps

\* The blocks handleSumJump enqueues after block BB: its successors that have
\* not been taken off the work list yet.
unseenSuccessors(M, BB, Seen) == SetToSeq(Successors(M, BB) \ Seen)

\* handleSumJump's walk.  sumJumpScan is the inner loop at index i of block
\* BB, sumJumpPop the outer loop taking a block off WorkList; Seen is the
\* function's local Visited set.
RECURSIVE sumJumpScan(_, _, _, _, _, _, _)
RECURSIVE sumJumpPop(_, _, _, _, _)

\* The marker of the expected address has been met: R is what getBlockAt
\* gave for it, and the walk goes on in that block, after the marker.
sumJumpSplit(R, Marker, WorkList, Seen, fuel) ==
    IF R.ret = Null THEN R.M
    ELSE sumJumpScan(R.M, R.ret, 2, Marker.pc + Marker.size, WorkList, Seen, fuel)

sumJumpScan(M, BB, i, NextPC, WorkList, Seen, fuel) ==
    IF fuel = 0 \/ M.fatal # "" THEN M
    ELSE IF i > Len(M.Blocks[BB])
    THEN sumJumpPop(M, NextPC, WorkList \o unseenSuccessors(M, BB, Seen), Seen,
                    fuel - 1)
    ELSE IF M.Blocks[BB][i].op = "newpc"
    THEN IF M.Blocks[BB][i].pc # NextPC THEN M
         ELSE sumJumpSplit(getBlockAt(M, M.Blocks[BB][i].pc, FALSE),
                           M.Blocks[BB][i], WorkList, Seen, fuel - 1)
    ELSE IF M.Blocks[BB][i].op = "exitTB" THEN M
    ELSE sumJumpScan(M, BB, i + 1, NextPC, WorkList, Seen, fuel - 1)

sumJumpPop(M, NextPC, WorkList, Seen, fuel) ==
    IF fuel = 0 \/ WorkList = << >> THEN M
    ELSE sumJumpScan(M, Head(WorkList), 1, NextPC, Tail(WorkList),
                     Seen \cup {Head(WorkList)}, fuel)

\* An upper bound of the steps of the walk: it meets each instruction at most
\* once per block it takes off the work list.
walkFuel(M) == 4 * (Len(M.Blocks) + 1) * (Len(M.Blocks) + 1)

\* handleSumJump once getBlockAt has answered R for the fall-through address.
sumJumpFrom(R, NextPC) ==
    IF R.M.fatal # "" THEN R.M
    ELSE IF R.ret = Null \/ R.M.Blocks[R.ret] = << >>
    THEN Fatal(R.M, "handleSumJump: no block or an empty one")
    ELSE sumJumpPop(R.M, NextPC, << R.ret >>, {Dispatcher}, walkFuel(R.M))

sumJumpAt(M, NextPC) ==
    IF NextPC = 0 THEN Fatal(M, "handleSumJump: NextPC is 0")
    ELSE sumJumpFrom(getBlockAt(M, NextPC, FALSE), NextPC)

\* handleSumJump for the PC write at index w of block b.
handleSumJump(M, b, w) == sumJumpAt(M, getNextPC(M, b, w, Len(M.Blocks)))

\* A faulty variant of branchToDispatcher: the branch takes the place of the
\* call and what follows the call stays.
branchToDispatcherKeepRest(M, id, loc) ==
    IF M.fatal # "" THEN M
    ELSE [M EXCEPT !.Blocks[loc[1]] =
                       SubSeq(@, 1, loc[2] - 1) \o << BranchInst(id, Dispatcher) >>
                           \o SubSeq(@, loc[2] + 1, Len(@)),
                   !.ExitTBUses = SelectSeq(@, LAMBDA u : u # id)]

\* The replacement of the exit call at loc by a branch to the dispatcher: the
\* unreachable after it goes, the call goes, and so does what is left after
\* the branch.
branchToDispatcher(M, id, loc) ==
    IF M.fatal # "" THEN M
    ELSE IF ~(loc[2] < Len(M.Blocks[loc[1]])
              /\ M.Blocks[loc[1]][loc[2] + 1].op = "unreachable")
    THEN Fatal(M, "translateIndirectJumps: no unreachable after exit_tb")
    ELSE [M EXCEPT !.Blocks[loc[1]] =
                       Append(SubSeq(@, 1, loc[2] - 1), BranchInst(id, Dispatcher)),
                   !.ExitTBUses = SelectSeq(@, LAMBDA u : u # id)]

relocateAndBranch(M, id) == branchToDispatcher(M, id, Locate(M.Blocks, ExitTBCall(id)))

\* The loop body for the call in block b whose PC write is at index w (0: none).
indirectAt(M, id, b, w) ==
    IF w # 0 /\ M.Blocks[b][w].vk = "const"
    THEN Fatal(M, "translateIndirectJumps: direct jump")
    ELSE IF w # 0 /\ M.EnableOSRA /\ isSumJump(M.Blocks[b][w])
    THEN relocateAndBranch(handleSumJump(M, b, w), id)
    ELSE relocateAndBranch(M, id)

indirectLocated(M, id, loc) ==
    indirectAt(M, id, loc[1], getPrevPCWrite(M, loc[1], loc[2]))

translateIndirectJump(M, id) ==
    IF M.fatal # "" THEN M
    ELSE indirectLocated(M, id, Locate(M.Blocks, ExitTBCall(id)))

RECURSIVE indirectUses(_, _)
indirectUses(M, uses) ==
    IF uses = << >> THEN M
    ELSE indirectUses(translateIndirectJump(M, Head(uses)), Tail(uses))

translateIndirectJumps(M) == indirectUses(M, M.ExitTBUses)

\* ---------------------------------------------------------- harvest, peek

\* What one run of the exploration pass does: nothing, marking the translated
\* blocks visited, or discovering an address.
NoSET == [kind |-> "none", pc |-> 0]

Translatable(M) ==
    { x \in DOMAIN M.Blocks :
        x \notin {Dispatcher, DispatcherDefault} /\ M.Blocks[x] # << >> }

SETChoices(M) ==
    {NoSET}
    \cup { [kind |-> "visit", pc |-> 0] :
             x \in { y \in {0} : ~(Translatable(M) \subseteq M.Visited) } }
    \cup { [kind |-> "target", pc |-> a] :
             a \in { x \in Addr : isExecutableAddress(x) /\ isInstructionAligned(x) } }

SETPass(M, c) ==
    CASE c.kind = "visit" -> [M EXCEPT !.Visited = @ \cup Translatable(M)]
      [] c.kind = "target" -> getBlockAt(M, c.pc, FALSE).M
      [] OTHER -> M

empty(M) == M.Unexplored = << >>

\* A faulty variant of runPasses: the pipeline without the direct-branch
\* pass.
runPassesNoDirect(M, c) == SETPass(M, c)

\* The pass pipeline of one round.
runPasses(M, c) == runOnFunction(SETPass(M, c))

\* A faulty variant of harvestPlain: the pipeline runs whatever the worklist
\* holds.
harvestPlainAlways(M, c1) == runPasses(M, c1)

\* The plain round of harvest, then its heuristic round.
harvestPlain(M, c1) == IF empty(M) THEN runPasses(M, c1) ELSE M

heuristicRuns(M1) == M1.fatal = "" /\ M1.EnableOSRA /\ empty(M1)

harvestHeuristic(M1, c2) ==
    IF heuristicRuns(M1)
    THEN runPasses([M1 EXCEPT !.Visited = {}], c2)
    ELSE M1

harvest(M, c1, c2) == harvestHeuristic(harvestPlain(M, c1), c2)

NoMoreTargets == [pc |-> 0, blk |-> Null]

\* Two faulty variants of popBack: one returns the back entry and leaves it
\* on the worklist, the other takes the front entry.
popBackKeep(M) ==
    [M |-> handOut(M, M.Unexplored[Len(M.Unexplored)].pc, "peek"),
     ret |-> M.Unexplored[Len(M.Unexplored)]]

popFront(M) ==
    [M |-> handOut([M EXCEPT !.Unexplored = Tail(@)], M.Unexplored[1].pc, "peek"),
     ret |-> M.Unexplored[1]]

popBack(M) ==
    LET Result == M.Unexplored[Len(M.Unexplored)]
    IN [M |-> handOut([M EXCEPT !.Unexplored = Front(@)], Result.pc, "peek"),
        ret |-> Result]

\* peek after its call of harvest.
peekHarvested(H) ==
    IF H.fatal # "" \/ empty(H)
    THEN [M |-> H, ret |-> NoMoreTargets]
    ELSE popBack(H)

peek(M, c1, c2) == peekHarvested(harvest(M, c1, c2))

\* ------------------------------------------------------------------- state

VARIABLES
    JumpTargets,                    \* address -> block
    Unexplored,                     \* the worklist of [pc, blk]
    Visited,                        \* blocks the exploration pass has processed
    ReliablePCs,
    OriginalInstructionAddresses,   \* address -> instruction
    Blocks,                         \* block -> its instructions
    DispatcherSwitch,               \* the cases, [lit, blk], in order of addition
    ExitTBUses,                     \* the use list of exitTB, newest first
    EnableOSRA,
    fatal,                          \* the failed assertion, "" if none
    gPushed, gReturned, gHanded,    \* histories
    cur, curPC, first,              \* the translator: its block and position
    phase,                          \* the driver: "translating", "drained" once
                                    \* peek has returned the sentinel, "finished"
    probe                           \* the input and result of a function under test

mvars == << JumpTargets, Unexplored, Visited, ReliablePCs,
            OriginalInstructionAddresses, Blocks, DispatcherSwitch,
            ExitTBUses, EnableOSRA, fatal, gPushed, gReturned, gHanded >>

vars == << mvars, cur, curPC, first, phase, probe >>

Mgr ==
    [JumpTargets |-> JumpTargets, Unexplored |-> Unexplored,
     Visited |-> Visited, ReliablePCs |-> ReliablePCs,
     OriginalInstructionAddresses |-> OriginalInstructionAddresses,
     Blocks |-> Blocks, DispatcherSwitch |-> DispatcherSwitch,
     ExitTBUses |-> ExitTBUses, EnableOSRA |-> EnableOSRA, fatal |-> fatal,
     gPushed |-> gPushed, gReturned |-> gReturned, gHanded |-> gHanded]

Becomes(M) ==
    /\ JumpTargets' = M.JumpTargets
    /\ Unexplored' = M.Unexplored
    /\ Visited' = M.Visited
    /\ ReliablePCs' = M.ReliablePCs
    /\ OriginalInstructionAddresses' = M.OriginalInstructionAddresses
    /\ Blocks' = M.Blocks
    /\ DispatcherSwitch' = M.DispatcherSwitch
    /\ ExitTBUses' = M.ExitTBUses
    /\ EnableOSRA' = M.EnableOSRA
    /\ fatal' = M.fatal
    /\ gPushed' = M.gPushed
    /\ gReturned' = M.gReturned
    /\ gHanded' = M.gHanded

EmptyMap == [x \in {} |-> Null]

\* No function is under test.
NoProbe == [fn |-> "none"]

\* The addresses the calls are made with: the valid ones, one that is not
\* executable and one that is not aligned.
ValidAddr == { a \in Addr : isExecutableAddress(a) /\ isInstructionAligned(a) }

Requests == ValidAddr \cup {1, 3}

Init ==
    /\ JumpTargets = EmptyMap
    /\ Unexplored = << >>
    /\ Visited = {}
    /\ ReliablePCs = {}
    /\ OriginalInstructionAddresses = EmptyMap
    /\ Blocks = DispatcherBlocks
    /\ DispatcherSwitch = << >>
    /\ ExitTBUses = << >>
    /\ EnableOSRA \in BOOLEAN
    /\ fatal = ""
    /\ gPushed = << >>
    /\ gReturned = EmptyMap
    /\ gHanded = EmptyMap
    /\ cur = Null
    /\ curPC = 0
    /\ first = FALSE
    /\ phase = "translating"
    /\ probe = NoProbe

\* ----------------------------------------------------------------- actions

\* A call of getBlockAt.
GetBlockAt ==
    \E PC \in Requests, Reliable \in BOOLEAN :
        LET R == getBlockAt(Mgr, PC, Reliable) IN
        /\ fatal = ""
        /\ phase # "finished"
        /\ Becomes(R.M)
        /\ phase' = "translating"
        /\ UNCHANGED << cur, curPC, first, probe >>

\* A call of registerBlock by the translator, for the block it is in.
RegisterBlock ==
    \E PC \in ValidAddr, Block \in {cur}, EndDiffers \in BOOLEAN :
        /\ fatal = ""
        /\ phase # "finished"
        /\ cur # Null
        /\ PC \in DOMAIN JumpTargets => EndDiffers
        /\ Becomes(registerBlock(Mgr, PC, Block, EndDiffers))
        /\ phase' = "translating"
        /\ UNCHANGED << cur, curPC, first, probe >>

\* A call of newPC by the translator, which branches to the block it gets and
\* goes on in it when told to continue.
\* The translator ends its block with a branch to the block it got.
branchTo(M, Block) ==
    IF Block # Null /\ cur # Null /\ M.fatal = ""
    THEN [M EXCEPT !.Blocks[cur] = Append(@, BranchInst(0, Block))]
    ELSE M

NewPCReturns(R, PC) ==
    /\ fatal = ""
    /\ phase # "finished"
    /\ Becomes(branchTo(R.M, R.ret))
    /\ phase' = "translating"
    /\ UNCHANGED probe
    /\ IF R.ret = Null THEN UNCHANGED << cur, curPC, first >>
       ELSE /\ cur' = IF R.cont = "true" THEN R.ret ELSE Null
            /\ curPC' = IF R.cont = "true" THEN PC ELSE 0
            /\ first' = FALSE

NewPC == \E PC \in Requests : NewPCReturns(newPC(Mgr, PC), PC)

\* A call of peek by the translator, which is between two translations; c1
\* and c2 are what the exploration pass does in the rounds that run.
PeekHandsOut(R) ==
    /\ fatal = ""
    /\ phase # "finished"
    /\ cur = Null
    /\ Becomes(R.M)
    /\ phase' = IF R.ret = NoMoreTargets /\ R.M.fatal = ""
                THEN "drained" ELSE "translating"
    /\ UNCHANGED probe
    /\ IF R.ret.blk = Null THEN UNCHANGED << cur, curPC, first >>
       ELSE /\ cur' = R.ret.blk
            /\ curPC' = R.ret.pc
            /\ first' = TRUE

PeekHeuristic(M1) ==
    \E c2 \in (IF heuristicRuns(M1) THEN SETChoices(M1) ELSE {NoSET}) :
        PeekHandsOut(peekHarvested(harvestHeuristic(M1, c2)))

Peek ==
    \E c1 \in (IF empty(Mgr) THEN SETChoices(Mgr) ELSE {NoSET}) :
        PeekHeuristic(harvestPlain(Mgr, c1))

Translated(PC) ==
    \E b \in DOMAIN Blocks : \E i \in DOMAIN Blocks[b] :
        Blocks[b][i].op = "newpc" /\ Blocks[b][i].pc = PC

\* The addresses a translated jump may name: the valid ones and one that is
\* not executable.
Targets == ValidAddr \cup {1}

\* The IR of one machine instruction: what goes into the current block, and
\* into a new block if any.
Templates(PC, New) ==
    { [kind |-> "plain", code |-> << >>, more |-> << >>] }
    \cup { [kind |-> "jmp",
            code |-> << StorePC(PC, "const", T), ExitTBCall(PC), UnreachableInst(PC) >>,
            more |-> << >>] : T \in Targets }
    \cup { [kind |-> "ijmp",
            code |-> << StorePC(PC, vk, 0), ExitTBCall(PC), UnreachableInst(PC) >>,
            more |-> << >>] : vk \in {"load", "add"} }
    \cup { [kind |-> "helper",
            code |-> << StorePC(PC, "const", PC), HelperCall(PC), ExitTBCall(PC),
                        UnreachableInst(PC) >>,
            more |-> << >>] }
    \cup { [kind |-> "cond",
            code |-> << StorePC(PC, "const", PC), BranchInst(PC, New) >>,
            more |-> << ExitTBCall(PC), UnreachableInst(PC) >>] }

\* The translator translates the machine instruction at curPC into its block.
Translate ==
    \E t \in Templates(curPC, Len(Blocks) + 1) :
        LET Marker == NewPCMarker(curPC, InstructionAlignment)
            M1 == IF first THEN Mgr ELSE registerInstruction(Mgr, curPC, Marker)
            B1 == [M1.Blocks EXCEPT ![cur] = @ \o << Marker >> \o t.code]
            M2 == [M1 EXCEPT
                     !.Blocks = IF t.kind = "cond" THEN Append(B1, t.more) ELSE B1,
                     !.ExitTBUses = IF t.kind = "plain" THEN @ ELSE << curPC >> \o @]
        IN
        /\ fatal = ""
        /\ phase # "finished"
        /\ phase' = "translating"
        /\ UNCHANGED probe
        /\ cur # Null
        /\ curPC \in ValidAddr
        /\ ~Translated(curPC)
        /\ t.kind = "plain" => (curPC + InstructionAlignment) \in ValidAddr
        /\ Becomes(IF M1.fatal # "" THEN M1 ELSE M2)
        /\ IF t.kind = "plain" /\ M1.fatal = ""
           THEN /\ cur' = cur
                /\ curPC' = curPC + InstructionAlignment
                /\ first' = FALSE
           ELSE /\ cur' = Null
                /\ curPC' = 0
                /\ first' = FALSE

\* The driver, once peek has returned the sentinel, translates the indirect
\* jumps and is done.
TranslateIndirectJumps ==
    /\ fatal = ""
    /\ phase = "drained"
    /\ Becomes(translateIndirectJumps(Mgr))
    /\ phase' = "finished"
    /\ UNCHANGED << cur, curPC, first, probe >>

\* -------------------------------------------- functions of the IR alone

\* The blocks of the functions unvisit and getPC are applied to, besides the
\* dispatcher's two.
GraphBlocks == 3..6

\* The control-flow graphs: a chain of three blocks and an unrelated fourth,
\* a diamond, a loop with an exit, and two blocks joining in a third.
Topologies ==
    { (3 :> << 4 >>) @@ (4 :> << 5 >>) @@ (5 :> << >>) @@ (6 :> << >>),
      (3 :> << 4, 5 >>) @@ (4 :> << 6 >>) @@ (5 :> << 6 >>) @@ (6 :> << >>),
      (3 :> << 4 >>) @@ (4 :> << 5 >>) @@ (5 :> << 3, 6 >>) @@ (6 :> << >>),
      (3 :> << 5 >>) @@ (4 :> << 5 >>) @@ (5 :> << 6 >>) @@ (6 :> << >>) }

Terminator(b, succ) ==
    CASE Len(succ) = 0 -> UnreachableInst(b)
      [] Len(succ) = 1 -> BranchInst(b, succ[1])
      [] OTHER -> CondBranchInst(b, succ[1], succ[2])

\* How a block starts: with the newpc marker of an address, with another
\* instruction (0), or not at all, the block being empty (-1).
Heads == ValidAddr \cup {0, -1}

GraphBlock(b, succ, head) ==
    IF head = -1 THEN << >>
    ELSE (IF head = 0 THEN << >> ELSE << NewPCMarker(head, InstructionAlignment) >>)
         \o << StorePC(b, "load", 0), Terminator(b, succ) >>

Graph(t, h) == DispatcherBlocks \o [i \in 1..4 |-> GraphBlock(i + 2, t[i + 2], h[i + 2])]

\* A manager, as constructed, whose function is one of the graphs.
InitGraph ==
    /\ JumpTargets = EmptyMap
    /\ Unexplored = << >>
    /\ \E t \in Topologies, h \in [GraphBlocks -> Heads] : Blocks = Graph(t, h)
    /\ ReliablePCs = {}
    /\ OriginalInstructionAddresses = EmptyMap
    /\ ExitTBUses = << >>
    /\ EnableOSRA = FALSE
    /\ fatal = ""
    /\ gPushed = << >>
    /\ gReturned = EmptyMap
    /\ gHanded = EmptyMap
    /\ cur = Null
    /\ curPC = 0
    /\ first = FALSE
    /\ phase = "translating"
    /\ probe = NoProbe

\* Some of the non-empty blocks are visited.
InitUnvisit ==
    /\ InitGraph
    /\ Visited \in SUBSET { b \in GraphBlocks : Blocks[b] # << >> }
    /\ DispatcherSwitch = << >>

\* A call of unvisit; probe keeps the block and what Visited was.
Unvisit ==
    \E BB \in GraphBlocks :
        /\ Becomes(unvisit(Mgr, BB))
        /\ probe' = [fn |-> "unvisit", BB |-> BB, Visited |-> Visited]
        /\ UNCHANGED << cur, curPC, first, phase >>

NextUnvisit == Unvisit

SpecUnvisit == InitUnvisit /\ [][NextUnvisit]_vars

\* The dispatcher switches to the first block of the graph, or has no case.
InitGetPC ==
    /\ InitGraph
    /\ Visited = {}
    /\ DispatcherSwitch \in { << >>, << [lit |-> 2, blk |-> 3] >> }

\* A call of getPC, for an instruction of the function and an order of the
\* use lists.
GetPC ==
    \E b \in GraphBlocks, asc \in BOOLEAN :
        \E i \in DOMAIN Blocks[b] :
            /\ probe = NoProbe
            /\ probe' = [fn |-> "getPC", b |-> b, i |-> i, asc |-> asc,
                         ret |-> getPC(Mgr, b, i, asc)]
            /\ UNCHANGED << mvars, cur, curPC, first, phase >>

NextGetPC == GetPC

SpecGetPC == InitGetPC /\ [][NextGetPC]_vars

\* A manager as constructed, for the functions that do not read its state.
InitEmpty ==
    /\ JumpTargets = EmptyMap
    /\ Unexplored = << >>
    /\ Visited = {}
    /\ ReliablePCs = {}
    /\ OriginalInstructionAddresses = EmptyMap
    /\ Blocks = DispatcherBlocks
    /\ DispatcherSwitch = << >>
    /\ ExitTBUses = << >>
    /\ EnableOSRA = FALSE
    /\ fatal = ""
    /\ gPushed = << >>
    /\ gReturned = EmptyMap
    /\ gHanded = EmptyMap
    /\ cur = Null
    /\ curPC = 0
    /\ first = FALSE
    /\ phase = "translating"

\* The values isSumJump is applied to: operators nested twice at most.
Opcodes == {"add", "or", "shl", "lshr", "ashr", "and", "sub"}

LeafValues == {ConstantValue, LoadValue, OtherValue}

Values1 == LeafValues \cup { BinOp(o, a, b) : o \in Opcodes, a \in LeafValues, b \in LeafValues }

Values2 == Values1 \cup { BinOp(o, a, b) : o \in {"add", "and", "shl", "sub"},
                                           a \in Values1, b \in Values1 }

InitIsSumJump ==
    /\ InitEmpty
    /\ \E V \in Values2 : probe = [fn |-> "isSumJump", V |-> V, done |-> FALSE, ret |-> FALSE]

IsSumJump ==
    /\ ~probe.done
    /\ probe' = [probe EXCEPT !.done = TRUE, !.ret = isSumJumpValue(probe.V)]
    /\ UNCHANGED << mvars, cur, curPC, first, phase >>

NextIsSumJump == IsSumJump

SpecIsSumJump == InitIsSumJump /\ [][NextIsSumJump]_vars

\* registerInstruction called on its own, with any address and either of
\* two instructions.
RegisterInstruction ==
    \E PC \in Addr : \E size \in {InstructionAlignment, 2 * InstructionAlignment} :
        /\ fatal = ""
        /\ Becomes(registerInstruction(Mgr, PC, NewPCMarker(PC, size)))
        /\ probe' = [fn |-> "registerInstruction", PC |-> PC,
                     I |-> NewPCMarker(PC, size),
                     before |-> OriginalInstructionAddresses]
        /\ UNCHANGED << cur, curPC, first, phase >>

InitRegisterInstruction == InitEmpty /\ probe = NoProbe

NextRegisterInstruction == RegisterInstruction

SpecRegisterInstruction == InitRegisterInstruction /\ [][NextRegisterInstruction]_vars

\* The bytes of a segment: a buffer that holds one word of Size bytes and at
\* most MaxSlack bytes more, zero but for its first byte, its last byte and
\* the last byte of its first word.
ByteValues == {0, 1, 2}

MaxSlack == 1

Buffers(Size) ==
    { d \in UNION { [1..n -> ByteValues] : n \in Size..(Size + MaxSlack) } :
        \A i \in DOMAIN d : d[i] # 0 => i \in {1, Size, Len(d)} }

InitHarvestGlobalData ==
    /\ InitEmpty
    /\ \E pointerSize \in {32, 64} : \E little \in BOOLEAN :
       \E Data \in [DOMAIN Segments -> Buffers(pointerSize \div 8)] :
           probe = [fn |-> "harvestGlobalData", Data |-> Data,
                    pointerSize |-> pointerSize, little |-> little, done |-> FALSE]

HarvestGlobalData ==
    /\ probe.fn = "harvestGlobalData"
    /\ ~probe.done
    /\ Becomes(harvestGlobalData(Mgr, probe.Data, probe.pointerSize, probe.little))
    /\ probe' = [probe EXCEPT !.done = TRUE]
    /\ UNCHANGED << cur, curPC, first, phase >>

NextHarvestGlobalData == HarvestGlobalData

SpecHarvestGlobalData == InitHarvestGlobalData /\ [][NextHarvestGlobalData]_vars

\* The segments readConstantInt is applied to: a short one from address 0,
\* readable or not, and a readable one after it long enough for a read of
\* eight bytes, zero but for a few of its bytes; each holds as many bytes as
\* its range has addresses.
HighSizes == {9, 10}

HighData(n) ==
    { d \in [1..n -> ByteValues] : \A i \in DOMAIN d : d[i] # 0 => i \in {1, 4, 8, n} }

SegmentChoices ==
    { << [StartVirtualAddress |-> 0, EndVirtualAddress |-> Len(low),
          IsReadable |-> r, Data |-> low],
         [StartVirtualAddress |-> Len(low), EndVirtualAddress |-> Len(low) + Len(high),
          IsReadable |-> TRUE, Data |-> high] >> :
        r \in BOOLEAN, low \in {<<1, 0, 0, 0>>, <<2, 1, 0, 2>>},
        high \in UNION { HighData(n) : n \in HighSizes } }

InitReadConstantInt ==
    /\ InitEmpty
    /\ \E Segs \in SegmentChoices : \E little \in BOOLEAN :
       \E Address \in 0..(AddressSpace - 1) : \E Size \in {1, 2, 4, 8} :
           probe = [fn |-> "readConstantInt", Segs |-> Segs, little |-> little,
                    Address |-> Address, Size |-> Size, done |-> FALSE, ret |-> Absent]

\* What a read outside the buffer may give: a fault, or an integer made of
\* whatever the memory holds there.
ReadOutside ==
    \/ /\ probe' = [probe EXCEPT !.done = TRUE]
       /\ fatal' = "readConstantInt: read outside the buffer"
    \/ /\ \E b \in ByteValues :
             probe' = [probe EXCEPT
                         !.done = TRUE,
                         !.ret = ConstantInt(probe.Size * 8, [lo |-> b, hi |-> 0])]
       /\ fatal' = fatal

ReadReturns(r) ==
    IF r = OutsideBuffer
    THEN ReadOutside
    ELSE probe' = [probe EXCEPT !.done = TRUE, !.ret = r] /\ fatal' = fatal

ReadConstantInt ==
    /\ probe.fn = "readConstantInt"
    /\ ~probe.done
    /\ ReadReturns(readConstantInt(probe.Segs, probe.little, probe.Address, probe.Size))
    /\ UNCHANGED << JumpTargets, Unexplored, Visited, ReliablePCs,
                    OriginalInstructionAddresses, Blocks, DispatcherSwitch, ExitTBUses,
                    EnableOSRA, gPushed, gReturned, gHanded, cur, curPC, first, phase >>

NextReadConstantInt == ReadConstantInt

SpecReadConstantInt == InitReadConstantInt /\ [][NextReadConstantInt]_vars

Next ==
    \/ GetBlockAt
    \/ RegisterBlock
    \/ NewPC
    \/ Peek
    \/ Translate
    \/ TranslateIndirectJumps

Spec == Init /\ [][Next]_vars

\* The manager used through getBlockAt, newPC and peek only: no registerBlock.
NextGetBlockAt ==
    \/ GetBlockAt
    \/ NewPC
    \/ Peek
    \/ Translate
    \/ TranslateIndirectJumps

SpecGetBlockAt == Init /\ [][NextGetBlockAt]_vars

\* ------------------------------------------------------------------ claims

\* The switch cases whose literal is a.
CasesFor(a) == { i \in DOMAIN DispatcherSwitch : DispatcherSwitch[i].lit = a }

\* The addresses that have an entry on the worklist.
Pending == { Unexplored[i].pc : i \in DOMAIN Unexplored }

\* C1: after any sequence of getBlockAt calls the dispatcher switch has
\* exactly one case per distinct valid address requested and none for any
\* other address, and the case of an address targets the block getBlockAt
\* returned for it.
C1_DispatcherCompleteness ==
    /\ Len(DispatcherSwitch) = Cardinality(DOMAIN gReturned)
    /\ \A a \in DOMAIN gReturned :
          /\ a \in ValidAddr
          /\ Cardinality(CasesFor(a)) = 1
          /\ \A i \in CasesFor(a) :
                DispatcherSwitch[i].blk = gReturned[a] /\ gReturned[a] # Null
    /\ \A i \in DOMAIN DispatcherSwitch : DispatcherSwitch[i].lit \in DOMAIN gReturned

\* Two addresses have been requested, one of them met in the middle of a
\* translated block and promoted.
C1_Witness ==
    /\ Len(DispatcherSwitch) = 2
    /\ \E a \in DOMAIN gReturned : a \notin Range(gPushed)

\* C2: in any reachable state, two calls of getBlockAt with the same address
\* and the same reliability flag return the same block, and the second leaves
\* the case table of the dispatcher switch as the first left it.
C2_Idempotent ==
    \A PC \in Requests, Reliable \in BOOLEAN :
        LET R1 == getBlockAt(Mgr, PC, Reliable)
            R2 == getBlockAt(R1.M, PC, Reliable)
        IN /\ R2.ret = R1.ret
           /\ R2.M.DispatcherSwitch = R1.M.DispatcherSwitch

\* The first of the two calls splits a translated block and adds a case.
C2_Witness ==
    \E PC \in ValidAddr :
        /\ PC \notin DOMAIN JumpTargets
        /\ PC \in DOMAIN OriginalInstructionAddresses
        /\ fatal = ""
        /\ LET R1 == getBlockAt(Mgr, PC, TRUE)
               R2 == getBlockAt(R1.M, PC, TRUE)
           IN /\ R1.ret = Len(Blocks) + 1
              /\ R2.ret = R1.ret
              /\ Len(R2.M.DispatcherSwitch) = Len(DispatcherSwitch) + 1

\* C3: in every state reachable by getBlockAt, registerBlock, newPC and peek,
\* every key of JumpTargets has a switch case whose target is the block
\* JumpTargets maps it to.
C3_EveryTargetHasCase ==
    \A a \in DOMAIN JumpTargets :
        \E i \in DOMAIN DispatcherSwitch :
            DispatcherSwitch[i] = [lit |-> a, blk |-> JumpTargets[a]]

\* C4: getBlockAt with an address outside every executable range, or not
\* instruction-aligned, returns no block and changes nothing, whatever the
\* reliability flag.
C4_InvalidAbsent ==
    \A PC \in Addr, Reliable \in BOOLEAN :
        (~isExecutableAddress(PC) \/ ~isInstructionAligned(PC))
            => getBlockAt(Mgr, PC, Reliable) = [M |-> Mgr, ret |-> Null]

\* An invalid address is requested as reliable of a manager that has targets,
\* pending entries, visited blocks and reliable addresses.
C4_Witness ==
    /\ fatal = ""
    /\ JumpTargets # EmptyMap
    /\ Unexplored # << >>
    /\ Visited # {}
    /\ ReliablePCs # {}
    /\ \E PC \in Requests : ~isExecutableAddress(PC) /\ getBlockAt(Mgr, PC, TRUE).ret = Null
    /\ \E PC \in Requests : ~isInstructionAligned(PC) /\ getBlockAt(Mgr, PC, TRUE).ret = Null

\* C5: once an address maps to a block in JumpTargets it maps to that block
\* in every later state.
C5_MappingStable ==
    [][\A a \in DOMAIN JumpTargets :
          a \in DOMAIN JumpTargets' /\ JumpTargets'[a] = JumpTargets[a]]_vars

\* An address entered JumpTargets through registerBlock and was then
\* requested through getBlockAt, while another has its switch case.
C5_Witness ==
    /\ \E a \in DOMAIN JumpTargets :
          /\ CasesFor(a) = {}
          /\ a \in DOMAIN gReturned
          /\ gReturned[a] = JumpTargets[a]
    /\ \E a \in DOMAIN JumpTargets : CasesFor(a) # {}

\* C6: every entry pushed onto the worklist is handed out exactly once, by
\* one peek or by one newPC; no address is pushed twice; and once the
\* worklist is empty every pushed entry has been handed out.
C6_HandedOnce ==
    /\ \A i, j \in DOMAIN gPushed : gPushed[i] = gPushed[j] => i = j
    /\ \A i, j \in DOMAIN Unexplored :
          Unexplored[i].pc = Unexplored[j].pc => i = j
    /\ \A a \in DOMAIN gHanded : Len(gHanded[a]) = 1
    /\ Pending \cap DOMAIN gHanded = {}
    /\ Pending \cup DOMAIN gHanded = Range(gPushed)
    /\ Unexplored = << >> => \A a \in Range(gPushed) : a \in DOMAIN gHanded

\* One entry has been handed out by peek and another by newPC, and the
\* worklist is empty.
C6_Witness ==
    /\ Unexplored = << >>
    /\ \E a, b \in DOMAIN gHanded :
          gHanded[a] = << "peek" >> /\ gHanded[b] = << "newPC" >>

\* C7: every block on the worklist is empty, so the assertion of newPC's
\* pending case never fails; a block reused or split off for an address is
\* not put on the worklist.
C7_UnexploredEmpty ==
    /\ \A i \in DOMAIN Unexplored : Blocks[Unexplored[i].blk] = << >>
    /\ fatal # "newPC: Result not empty"
    /\ \A a \in DOMAIN gReturned : a \notin Range(gPushed) => a \notin Pending

\* newPC has taken an entry off the worklist, and an address met in the
\* middle of a translated block has been given that block's tail.
C7_Witness ==
    /\ \E a \in DOMAIN gHanded : gHanded[a] = << "newPC" >>
    /\ \E a \in DOMAIN gReturned :
          a \notin Range(gPushed) /\ Blocks[gReturned[a]] # << >>

\* C8: whenever newPC is called with an address that has a block in
\* JumpTargets and no entry on the worklist, that block is non-empty: the
\* assertion of newPC's visited case holds, and newPC returns the block with
\* ShouldContinue false.
C8_VisitedNonEmpty ==
    /\ fatal # "newPC: block is empty"
    /\ \A a \in DOMAIN JumpTargets :
          (fatal = "" /\ a \notin Pending) =>
              LET R == newPC(Mgr, a)
              IN /\ R.M.fatal = ""
                 /\ R.ret = JumpTargets[a]
                 /\ R.cont = "false"
                 /\ Blocks[R.ret] # << >>

\* The entries pushed and not yet handed out in M, oldest first.
Remaining(M) == SelectSeq(M.gPushed, LAMBDA a : a \notin DOMAIN M.gHanded)

\* C9: after harvest, peek returns the sentinel exactly when the worklist is
\* empty, leaving the worklist as it is, and otherwise removes and returns the
\* most recently pushed of the remaining entries.
C9_PeekLIFO ==
    \A c1 \in SETChoices(Mgr) :
        LET M1 == harvestPlain(Mgr, c1) IN
        \A c2 \in SETChoices(M1) :
            LET H == harvestHeuristic(M1, c2)
                R == peekHarvested(H)
            IN (fatal = "" /\ H.fatal = "") =>
                  IF H.Unexplored = << >>
                  THEN R.ret = NoMoreTargets /\ R.M = H
                  ELSE /\ R.ret # NoMoreTargets
                       /\ R.ret.pc = Remaining(H)[Len(Remaining(H))]
                       /\ R.ret.blk = H.JumpTargets[R.ret.pc]
                       /\ [i \in DOMAIN R.M.Unexplored |-> R.M.Unexplored[i].pc]
                             = Front(Remaining(H))
                       /\ R.M.Unexplored = Front(H.Unexplored)

\* peek has handed out the entry pushed last and left an older one.
C9_Witness ==
    /\ first
    /\ cur # Null
    /\ Unexplored # << >>
    /\ Len(gPushed) >= 2
    /\ curPC = gPushed[Len(gPushed)]
    /\ gHanded = (curPC :> << "peek" >>)

\* The call of instruction id has no write to the PC before it in its block:
\* going backwards, the start of the block or a call comes first.
NoPCWriteBefore(id) ==
    LET loc == Locate(Blocks, ExitTBCall(id))
        B == Blocks[loc[1]]
    IN /\ loc[1] # Null
       /\ \A j \in 1..(loc[2] - 1) :
             B[j].op = "storePC" => \E k \in (j + 1)..(loc[2] - 1) : isCallInst(B[k])

\* C10: the direct-branch pass leaves alone an exit call with no write to the
\* PC before it in its block: the loop body changes nothing for it, neither
\* the blocks nor the manager, and after the whole pass the call is still in
\* use and still followed by its unreachable.
C10_NoPCWriteUntouched ==
    \A id \in Range(ExitTBUses) :
        (fatal = "" /\ NoPCWriteBefore(id)) =>
            /\ translateDirectBranch(Mgr, id) = Mgr
            /\ LET P == runOnFunction(Mgr)
                   loc == Locate(P.Blocks, ExitTBCall(id))
               IN /\ id \in Range(P.ExitTBUses)
                  /\ loc[1] # Null
                  /\ loc[2] < Len(P.Blocks[loc[1]])
                  /\ P.Blocks[loc[1]][loc[2] + 1].op = "unreachable"

\* Two exit calls are left alone by the pass, one that follows a helper call
\* and one at the start of its block.
C10_Witness ==
    /\ fatal = ""
    /\ \E id \in Range(ExitTBUses) :
          /\ NoPCWriteBefore(id)
          /\ Locate(Blocks, ExitTBCall(id))[2] > 1
    /\ \E id \in Range(ExitTBUses) :
          /\ NoPCWriteBefore(id)
          /\ Locate(Blocks, ExitTBCall(id))[2] = 1

\* The exit call of instruction id has a nearest preceding write to the PC
\* that stores a literal constant.
ConstantPCWrite(M, id) ==
    LET loc == Locate(M.Blocks, ExitTBCall(id))
        w == getPrevPCWrite(M, loc[1], loc[2])
    IN w # 0 /\ M.Blocks[loc[1]][w].vk = "const"

\* C11: when translateIndirectJumps runs, after peek has returned the
\* sentinel, no exit call left has a constant as its nearest preceding write
\* to the PC, and the assertion on direct jumps does not fail.
C11_NoDirectJumpLeft ==
    /\ fatal # "translateIndirectJumps: direct jump"
    /\ phase = "drained" => \A id \in Range(ExitTBUses) : ~ConstantPCWrite(Mgr, id)

\* translateIndirectJumps has run on an exit call, after the direct-branch
\* pass had replaced another by a branch.
C11_Witness ==
    /\ phase = "finished"
    /\ fatal = ""
    /\ \E b \in DOMAIN Blocks : \E i \in DOMAIN Blocks[b] :
          Blocks[b][i].op = "br" /\ Blocks[b][i].tgt = Dispatcher
    /\ \E b \in DOMAIN Blocks : \E i \in DOMAIN Blocks[b] :
          /\ Blocks[b][i].op = "br"
          /\ Blocks[b][i].pc # 0
          /\ Blocks[b][i].tgt \in { JumpTargets[a] : a \in DOMAIN JumpTargets }

\* The addresses getBlockAt answers by splitting: no block is known for them,
\* and their recorded instruction is inside a block, not at its start.
Inside == { PC \in ValidAddr :
              /\ PC \notin DOMAIN JumpTargets
              /\ PC \in DOMAIN OriginalInstructionAddresses
              /\ Locate(Blocks, OriginalInstructionAddresses[PC])[2] > 1 }

VisitedStep(S, V) ==
    { s \in V : /\ \E p \in S : s \in Successors(Mgr, p)
                /\ Blocks[s] # << >>
                /\ Blocks[s][1].op # "newpc" }

RECURSIVE VisitedClosure(_, _, _)
VisitedClosure(S, V, n) ==
    IF n = 0 THEN S ELSE VisitedClosure(S \cup VisitedStep(S, V), V, n - 1)

\* What unvisit(BB) takes out of V.
Invalidated(BB, V) ==
    IF BB \in V THEN VisitedClosure({BB}, V, Len(Blocks)) ELSE {}

MarkerlessPreds(S) ==
    { p \in DOMAIN Blocks :
        /\ \E x \in S : p \in Predecessors(Mgr, x)
        /\ Blocks[p] # << >>
        /\ lastMarker(Blocks[p], Len(Blocks[p])) = 0 }

RECURSIVE BackClosure(_, _)
BackClosure(S, n) ==
    IF n = 0 THEN S ELSE BackClosure(S \cup MarkerlessPreds(S), n - 1)

\* The blocks the backward paths from the instruction at index i of block b
\* go through before they meet a marker; none when block b itself holds one
\* before the instruction.
OpenBlocks(b, i) ==
    IF lastMarker(Blocks[b], IF i = 1 THEN 1 ELSE i - 1) # 0 THEN {}
    ELSE BackClosure({b}, Len(Blocks))

\* The markers the backward paths meet first, as << block, index >>.
NearestMarkers(b, i) ==
    IF lastMarker(Blocks[b], IF i = 1 THEN 1 ELSE i - 1) # 0
    THEN { << b, lastMarker(Blocks[b], IF i = 1 THEN 1 ELSE i - 1) >> }
    ELSE { << p, lastMarker(Blocks[p], Len(Blocks[p])) >> :
             p \in { q \in DOMAIN Blocks :
                       /\ \E x \in OpenBlocks(b, i) : q \in Predecessors(Mgr, x)
                       /\ Blocks[q] # << >>
                       /\ lastMarker(Blocks[q], Len(Blocks[q])) # 0 } }

\* Every backward path meets a marker: each block gone through has a
\* predecessor, none is on a cycle of such blocks, and none follows the
\* dispatcher.
EveryPathMeetsMarker(b, i) ==
    \A x \in OpenBlocks(b, i) :
        /\ Predecessors(Mgr, x) # {}
        /\ Dispatcher \notin Predecessors(Mgr, x)
        /\ x \notin BackClosure(MarkerlessPreds({x}), Len(Blocks))

\* C14: getPC returns the sentinel (0, 0) only when the backward paths meet
\* two distinct markers or none, and returns the address and size of the
\* marker when every backward path meets one and the same marker, a diamond
\* included.
C14_GetPCUnique ==
    (probe.fn = "getPC" /\ ~probe.ret.assert) =>
        LET N == NearestMarkers(probe.b, probe.i) IN
        /\ probe.ret = PCPair(0, 0) => Cardinality(N) # 1
        /\ (Cardinality(N) = 1 /\ EveryPathMeetsMarker(probe.b, probe.i)) =>
              \E m \in N : probe.ret = PCPair(Blocks[m[1]][m[2]].pc,
                                              Blocks[m[1]][m[2]].size)

\* V is built only from shift and and operators over loads and constants.
RECURSIVE OnlyShiftAnd(_)
OnlyShiftAnd(V) ==
    \/ V.k \in {"const", "load"}
    \/ /\ V.k = "binop"
       /\ V.opc \in {"shl", "lshr", "ashr", "and"}
       /\ \A j \in DOMAIN V.ops : OnlyShiftAnd(V.ops[j])

\* V decides the walk when it is met: it is neither a constant, a load, nor
\* a shift or and operator.
Decides(V) == V.k \notin {"const", "load"} /\ ~(V.k = "binop" /\ V.opc \in {"shl", "lshr", "ashr", "and"})

IsAddOr(V) == V.k = "binop" /\ V.opc \in {"add", "or"}

\* C15: isSumJump is true of a value that is itself an add or an or; false of
\* a constant, of a load, and of a value built only from shifts and ands over
\* loads and constants; and under a shift or and, the first operand met that
\* is neither of those decides: true if it is an add or an or, false if it is
\* any other operator or kind of value.
C15_SumJumpClassification ==
    /\ isSumJumpValue(BinOp("add", LoadValue, ConstantValue))
    /\ ~isSumJumpValue(BinOp("and", LoadValue, ConstantValue))
    /\ ~isSumJumpValue(ConstantValue)
    /\ (probe.fn = "isSumJump" /\ probe.done) =>
          LET V == probe.V IN
          /\ IsAddOr(V) => probe.ret = TRUE
          /\ OnlyShiftAnd(V) => probe.ret = FALSE
          /\ (Decides(V) /\ ~IsAddOr(V)) => probe.ret = FALSE
          /\ (V.k = "binop" /\ ~Decides(V)) =>
                /\ Decides(V.ops[1]) => probe.ret = IsAddOr(V.ops[1])
                /\ (~Decides(V.ops[1]) /\ Decides(V.ops[2])) =>
                      probe.ret = IsAddOr(V.ops[2])

\* The walk has met an operator it does not know before an add, under an and.
C15_Witness ==
    /\ probe.fn = "isSumJump"
    /\ probe.done
    /\ probe.ret = FALSE
    /\ probe.V.k = "binop"
    /\ probe.V.opc = "and"
    /\ probe.V.ops[1].k = "binop" /\ probe.V.ops[1].opc = "sub"
    /\ IsAddOr(probe.V.ops[2])

\* C16: ReliablePCs only grows: no step of getBlockAt, newPC, peek with its
\* harvest and direct-branch pass, unvisit or translateIndirectJumps removes
\* an address from it.
C16_ReliableMonotone ==
    [][ReliablePCs \subseteq ReliablePCs']_vars

\* Two addresses are reliable after the translation has finished, one of
\* them handed out by peek and one never handed out.
C16_Witness ==
    /\ phase = "finished"
    /\ Cardinality(ReliablePCs) >= 2
    /\ \E a \in ReliablePCs : a \in DOMAIN gHanded
    /\ \E a \in ReliablePCs : a \notin DOMAIN gHanded

\* C17: registerInstruction inserts an address at most once and never
\* overwrites: on an address already recorded it is fatal and leaves the
\* earlier entry, and the entries of all other addresses, as they were; on a
\* new address it adds that one entry.
C17_RegisteredOnce ==
    probe.fn = "registerInstruction" =>
        /\ \A a \in DOMAIN probe.before :
              /\ a \in DOMAIN OriginalInstructionAddresses
              /\ OriginalInstructionAddresses[a] = probe.before[a]
        /\ probe.PC \in DOMAIN probe.before =>
              /\ fatal = "registerInstruction: PC saved twice"
              /\ OriginalInstructionAddresses = probe.before
        /\ probe.PC \notin DOMAIN probe.before =>
              /\ fatal = ""
              /\ OriginalInstructionAddresses = (probe.PC :> probe.I) @@ probe.before

\* An address recorded with one instruction has been registered again with
\* another.
C17_Witness ==
    /\ probe.fn = "registerInstruction"
    /\ probe.PC \in DOMAIN probe.before
    /\ probe.before[probe.PC] # probe.I
    /\ fatal # ""

\* The word of Size bytes at the offset o of d is the address a: its least
\* significant byte is a and its other bytes are zero.
WordIs(d, o, Size, little, a) ==
    /\ d[IF little THEN o + 1 ELSE o + Size] = a
    /\ \A k \in (o + 1)..(o + Size) :
          k # (IF little THEN o + 1 ELSE o + Size) => d[k] = 0

\* The valid addresses found as a word at an offset of a segment's bytes at
\* which a full word fits.
Candidates(Data, Size, little) ==
    { a \in ValidAddr : \E i \in DOMAIN Data : \E o \in 0..(Len(Data[i]) - Size) :
          WordIs(Data[i], o, Size, little, a) }

\* C18: harvestGlobalData calls getBlockAt(word, false) for the word at every
\* offset of every segment's bytes at which a full word fits, the last such
\* offset included, read in the source byte order: the valid candidates, and
\* they only, have a block afterwards, and none is reliable.
C18_EveryWordExamined ==
    (probe.fn = "harvestGlobalData" /\ probe.done) =>
        /\ DOMAIN JumpTargets =
              Candidates(probe.Data, probe.pointerSize \div 8, probe.little)
        /\ DOMAIN gReturned = DOMAIN JumpTargets
        /\ ReliablePCs = {}

\* The integer a sequence of at most four bytes forms, the most significant
\* first.
RECURSIVE Horner(_)
Horner(bs) == IF bs = << >> THEN 0 ELSE Horner(Front(bs)) * 256 + bs[Len(bs)]

\* The Size bytes of d from the offset o on, the most significant first in
\* the byte order given.
MostFirst(d, o, Size, little) ==
    [k \in 1..Size |-> IF little THEN d[o + Size + 1 - k] ELSE d[o + k]]

\* The integer the Size bytes of d at the offset o form, as its high and low
\* four bytes.
IntegerAt(d, o, Size, little) ==
    [lo |-> Horner(SubSeq(MostFirst(d, o, Size, little),
                          IF Size > 4 THEN Size - 3 ELSE 1, Size)),
     hi |-> Horner(SubSeq(MostFirst(d, o, Size, little), 1, Size - 4))]

OneSegment(d, n) ==
    << [StartVirtualAddress |-> 0, EndVirtualAddress |-> n, IsReadable |-> TRUE,
        Data |-> d] >>

\* readConstantInt's result is the integer of the bytes at the address, for
\* the segments that meet the precondition Pre(segment) at the probe's
\* address and size.
ReadsIntegerWhere(Pre(_)) ==
    (probe.fn = "readConstantInt" /\ probe.done) =>
        \A i \in DOMAIN probe.Segs :
            (probe.Segs[i].IsReadable /\ Pre(probe.Segs[i])) =>
                /\ probe.ret.found
                /\ probe.ret.bits = 8 * probe.Size
                /\ probe.ret.value =
                      IntegerAt(probe.Segs[i].Data,
                                probe.Address - probe.Segs[i].StartVirtualAddress,
                                probe.Size, probe.little)
                /\ probe.Size = 1 =>
                      probe.ret.value =
                          [lo |-> probe.Segs[i].Data[probe.Address
                                      - probe.Segs[i].StartVirtualAddress + 1],
                           hi |-> 0]

ByteOrderExamples ==
    /\ readConstantInt(OneSegment(<<1, 0, 0, 0, 0>>, 5), TRUE, 0, 4).value
          = [lo |-> 1, hi |-> 0]
    /\ readConstantInt(OneSegment(<<1, 0, 0, 0, 0>>, 5), FALSE, 0, 4).value
          = [lo |-> 16777216, hi |-> 0]
    /\ readConstantInt(OneSegment(<<2, 0>>, 2), TRUE, 0, 1)
          = readConstantInt(OneSegment(<<2, 0>>, 2), FALSE, 0, 1)

\* C19: readConstantInt of size 1, 2, 4 or 8, at an address of a readable
\* segment with address + size below the segment's end, returns the integer
\* the segment's bytes at the offset address - start form in the source byte
\* order; 01 00 00 00 is 1 in little-endian and 16777216 in big-endian
\* order, and a read of one byte does not depend on the order.
C19_ReadsInteger ==
    /\ ByteOrderExamples
    /\ ReadsIntegerWhere(LAMBDA S : /\ S.StartVirtualAddress <= probe.Address
                                    /\ probe.Address + probe.Size < S.EndVirtualAddress)

\* C19 as stated: the same of every read at an address inside a readable
\* segment whose bytes the segment holds.
C19_ReadsIntegerInside ==
    /\ ByteOrderExamples
    /\ ReadsIntegerWhere(LAMBDA S : /\ S.StartVirtualAddress <= probe.Address
                                    /\ probe.Address + probe.Size <= S.EndVirtualAddress)

\* A big-endian read of eight bytes has returned an integer with a byte set
\* in each half.
C19_Witness ==
    /\ probe.fn = "readConstantInt"
    /\ probe.done
    /\ probe.ret.found
    /\ probe.Size = 8
    /\ ~probe.little
    /\ probe.ret.value.lo > 0
    /\ probe.ret.value.hi > 0

\* The heuristic round of a harvest call whose plain round has left M1: it
\* changes nothing unless heuristic mode is enabled and the worklist is
\* empty, and then its pipeline starts from an empty Visited, which a
\* pipeline that visits nothing leaves empty.
HeuristicRoundOnlyIfEmpty(M1, c2) ==
    /\ ~(M1.EnableOSRA /\ M1.Unexplored = << >>) => harvestHeuristic(M1, c2) = M1
    /\ (M1.EnableOSRA /\ M1.Unexplored = << >> /\ M1.fatal = "" /\ c2.kind # "visit") =>
          harvestHeuristic(M1, c2).Visited = {}
    /\ (M1.EnableOSRA /\ M1.Unexplored = << >> /\ M1.fatal = "") =>
          harvestHeuristic(M1, c2).Visited \subseteq Translatable(harvestHeuristic(M1, c2))

\* The plain round of a harvest call on M, which has left M1 and in which the
\* exploration pass has found nothing: if the direct-branch pass has had no
\* exit to handle, so that nothing has been unvisited, Visited is as it was.
PlainRoundKeepsVisited(M, M1) ==
    M.ExitTBUses = << >> => M1.Visited = M.Visited

\* C20: within one harvest call the plain pipeline runs only if Unexplored is
\* empty on entry, the heuristic pipeline only if heuristic mode is enabled
\* and Unexplored is still empty after the plain round; Visited is cleared at
\* the beginning of the heuristic round and by nothing else in harvest; and
\* a call entered with a non-empty worklist changes no state.
C20_HarvestRounds ==
    fatal = "" =>
        \A c1 \in SETChoices(Mgr) :
            /\ Unexplored # << >> =>
                  /\ harvestPlain(Mgr, c1) = Mgr
                  /\ \A c2 \in SETChoices(Mgr) : harvest(Mgr, c1, c2) = Mgr
            /\ c1 = NoSET => PlainRoundKeepsVisited(Mgr, harvestPlain(Mgr, c1))
            /\ \A c2 \in SETChoices(harvestPlain(Mgr, c1)) :
                  HeuristicRoundOnlyIfEmpty(harvestPlain(Mgr, c1), c2)

\* A harvest call on this state runs both rounds, and the heuristic round
\* clears a Visited that the plain round has left non-empty.
C20_Witness ==
    /\ fatal = ""
    /\ EnableOSRA
    /\ Unexplored = << >>
    /\ Visited # {}
    /\ harvestPlain(Mgr, NoSET).Visited # {}
    /\ harvestPlain(Mgr, NoSET).Unexplored = << >>
    /\ harvest(Mgr, NoSET, NoSET).Visited = {}
    /\ phase = "translating"
    /\ \E a \in DOMAIN gHanded : TRUE

\* The constant the nearest preceding write to the PC of the exit call of
\* instruction id stores.
TargetOf(M, id) ==
    M.Blocks[Locate(M.Blocks, ExitTBCall(id))[1]]
            [getPrevPCWrite(M, Locate(M.Blocks, ExitTBCall(id))[1],
                            Locate(M.Blocks, ExitTBCall(id))[2])].vc

IsExit(I) == I.op \in {"br", "brcond", "switch", "unreachable", "exitTB"}

\* Block B has one exit, its last instruction.
OneExit(B) ==
    /\ B # << >>
    /\ \A j \in DOMAIN B : IsExit(B[j]) <=> j = Len(B)

\* Block B ends with Exit, the one exit of instruction id in it.
EndsWith(B, id, Exit) ==
    /\ B # << >>
    /\ B[Len(B)] = Exit
    /\ \A j \in 1..(Len(B) - 1) : B[j].pc = id => ~IsExit(B[j])

\* In P, left by the direct-branch pass, the exit call of instruction id and
\* its write of the constant T are gone and a block ends with what replaces
\* them.
Rewritten(P, id, T) ==
    /\ P.fatal = ""
    /\ id \notin Range(P.ExitTBUses)
    /\ \A b \in DOMAIN P.Blocks : \A j \in DOMAIN P.Blocks[b] :
          /\ P.Blocks[b][j] # ExitTBCall(id)
          /\ ~(P.Blocks[b][j].op = "storePC" /\ P.Blocks[b][j].pc = id)
    /\ IF isExecutableAddress(T) /\ isInstructionAligned(T)
       THEN /\ T \in DOMAIN P.JumpTargets
            /\ \E b \in DOMAIN P.Blocks :
                  EndsWith(P.Blocks[b], id, BranchInst(id, P.JumpTargets[T]))
       ELSE /\ T \notin DOMAIN P.JumpTargets
            /\ \A c \in Range(P.DispatcherSwitch) : c.lit # T
            /\ \A u \in Range(P.Unexplored) : u.pc # T
            /\ \E b \in DOMAIN P.Blocks :
                  /\ EndsWith(P.Blocks[b], id, UnreachableInst(id))
                  /\ Len(P.Blocks[b]) >= 2
                  /\ P.Blocks[b][Len(P.Blocks[b]) - 1] = AbortCall(id)

\* C21: the direct-branch pass removes every exit call whose nearest
\* preceding write to the PC stores a constant T, and that write, and leaves
\* a block that ends with one exit: a branch to the block of T in
\* JumpTargets if T is a valid address, a call to abort and an unreachable
\* otherwise, T then having no block, no switch case and no worklist entry.
C21_DirectJumpRewritten ==
    fatal = "" =>
        \A id \in Range(ExitTBUses) :
            ConstantPCWrite(Mgr, id) =>
                Rewritten(runOnFunction(Mgr), id, TargetOf(Mgr, id))

\* The pass has replaced one exit call by a branch to the block of its
\* target and another by a call to abort.
C21_Witness ==
    /\ fatal = ""
    /\ \E b \in DOMAIN Blocks : \E a \in DOMAIN JumpTargets :
          /\ OneExit(Blocks[b])
          /\ Blocks[b][Len(Blocks[b])].op = "br"
          /\ Blocks[b][Len(Blocks[b])].pc \in ValidAddr
          /\ Blocks[b][Len(Blocks[b])].tgt = JumpTargets[a]
          /\ Blocks[b][Len(Blocks[b])].pc \notin Range(ExitTBUses)
    /\ \E b \in DOMAIN Blocks : \E j \in DOMAIN Blocks[b] :
          /\ Blocks[b][j].op = "abort"
          /\ Blocks[b][j].pc \notin Range(ExitTBUses)
          /\ Translated(Blocks[b][j].pc)

\* The fall-through address of instruction id: the end of the instruction
\* its marker, in the block of its exit call, announces; 0 if the block has
\* no such marker.
FallThrough(M, id) ==
    LET B == M.Blocks[Locate(M.Blocks, ExitTBCall(id))[1]]
        Markers == { j \in DOMAIN B : B[j].op = "newpc" /\ B[j].pc = id }
    IN IF Markers = {} THEN 0
       ELSE B[CHOOSE j \in Markers : TRUE].pc + B[CHOOSE j \in Markers : TRUE].size

\* The addresses the handling of a jump to the constant T adds to
\* ReliablePCs, the fall-through address being NextPC.
NewlyReliable(T, NextPC) ==
    IF NextPC # 0 /\ T # NextPC /\ isExecutableAddress(T) /\ isInstructionAligned(T)
    THEN {T}
    ELSE {}

\* C22: the direct-branch pass, resolving a constant target T, asks for the
\* block with reliable = true exactly when the fall-through address is known
\* and is not T: T joins ReliablePCs then, if it is valid, and a jump to the
\* fall-through address adds nothing to ReliablePCs.
C22_ReliableFlag ==
    fatal = "" =>
        \A id \in Range(ExitTBUses) :
            ConstantPCWrite(Mgr, id) =>
                /\ translateDirectBranch(Mgr, id).ReliablePCs =
                      ReliablePCs \cup NewlyReliable(TargetOf(Mgr, id), FallThrough(Mgr, id))
                /\ TargetOf(Mgr, id) = FallThrough(Mgr, id) =>
                      translateDirectBranch(Mgr, id).ReliablePCs = ReliablePCs

\* The pass has rewritten a jump to the fall-through address, which is not
\* reliable, and a jump to another address, which is.
C22_Witness ==
    /\ fatal = ""
    /\ \E b \in DOMAIN Blocks : \E j \in DOMAIN Blocks[b] : \E a \in DOMAIN JumpTargets :
          /\ Blocks[b][j] = BranchInst(a - InstructionAlignment, JumpTargets[a])
          /\ a \notin ReliablePCs
    /\ \E b \in DOMAIN Blocks : \E j \in DOMAIN Blocks[b] : \E a \in DOMAIN JumpTargets :
          /\ Blocks[b][j].op = "br"
          /\ Blocks[b][j].pc \in ValidAddr
          /\ Blocks[b][j].pc + InstructionAlignment # a
          /\ Blocks[b][j].tgt = JumpTargets[a]
          /\ a \in ReliablePCs

NoExitCall(B) ==
    \A b \in DOMAIN B : \A j \in DOMAIN B[b] : B[b][j].op # "exitTB"

\* In P, left by a translateIndirectJumps that has completed, no exit call
\* remains, and for each of the calls ids there is a block that ends with its
\* one exit, the branch to the dispatcher that has replaced the call.
AllToDispatcher(P, ids) ==
    P.fatal = "" =>
        /\ P.ExitTBUses = << >>
        /\ NoExitCall(P.Blocks)
        /\ \A id \in ids :
              \E b \in DOMAIN P.Blocks :
                  EndsWith(P.Blocks[b], id, BranchInst(id, Dispatcher))

\* C23: once translateIndirectJumps has completed no exit call remains in the
\* function, and every block that held one ends with exactly one exit, a
\* branch to the dispatcher, with the unreachable and everything else after
\* the branch removed.
C23_AllExitsToDispatcher ==
    /\ (phase = "drained" /\ fatal = "") =>
          AllToDispatcher(translateIndirectJumps(Mgr), Range(ExitTBUses))
    /\ (phase = "finished" /\ fatal = "") =>
          /\ ExitTBUses = << >>
          /\ NoExitCall(Blocks)
          /\ \A b \in DOMAIN Blocks : \A j \in DOMAIN Blocks[b] :
                (Blocks[b][j].op = "br" /\ Blocks[b][j].tgt = Dispatcher) =>
                    EndsWith(Blocks[b], Blocks[b][j].pc, Blocks[b][j])

\* translateIndirectJumps has completed on two exit calls, each now a branch
\* to the dispatcher, one of them of a sum jump handled in heuristic mode.
C23_Witness ==
    /\ phase = "finished"
    /\ fatal = ""
    /\ EnableOSRA
    /\ \E b1 \in DOMAIN Blocks : \E b2 \in DOMAIN Blocks :
          /\ b1 # b2
          /\ Blocks[b1] # << >> /\ Blocks[b2] # << >>
          /\ Blocks[b1][Len(Blocks[b1])].op = "br"
          /\ Blocks[b1][Len(Blocks[b1])].tgt = Dispatcher
          /\ Blocks[b2][Len(Blocks[b2])].op = "br"
          /\ Blocks[b2][Len(Blocks[b2])].tgt = Dispatcher
          /\ \E j \in DOMAIN Blocks[b1] :
                Blocks[b1][j].op = "storePC" /\ Blocks[b1][j].vk = "add"

\* A readable segment of the probe passes the lookup as the claim words it.
SomeSegmentQualifies ==
    \E i \in DOMAIN probe.Segs :
        /\ probe.Segs[i].IsReadable
        /\ probe.Segs[i].StartVirtualAddress <= probe.Address
        /\ probe.Address + probe.Size < probe.Segs[i].EndVirtualAddress

\* C24: readConstantInt returns a value exactly when some readable segment
\* has start <= address and address + size < end, and absent otherwise: a
\* read with address + size = end is rejected and a segment that is not
\* readable never passes.
C24_ValueIffQualifies ==
    (probe.fn = "readConstantInt" /\ probe.done) =>
        /\ fatal = ""
        /\ probe.ret.found <=> SomeSegmentQualifies

\* C25: in every reachable state every address of ReliablePCs is valid, is a
\* key of JumpTargets and has a case in the dispatcher switch.
C25_ReliableHasBlockAndCase ==
    \A a \in ReliablePCs :
        /\ isExecutableAddress(a) /\ isInstructionAligned(a)
        /\ a \in DOMAIN JumpTargets
        /\ \E c \in Range(DispatcherSwitch) : c.lit = a

====
